---- MODULE Spec2Model ----
(***************************************************************************)
(* Sustainability chatbot: the two terminal programs (main.py and          *)
(* "import requests.py") and the Streamlit application (streamlit_app.py). *)
(* Text is a sequence of one-character strings; the fixed instruction      *)
(* texts (persona, prompt headers) are single tokens of such a sequence.   *)
(***************************************************************************)
EXTENDS Integers, Sequences, FiniteSets, TLC

VARIABLES
    app,           \* which program runs: "main", "import_requests", "streamlit"
    GROQ_API_KEY,  \* os.getenv("GROQ_API_KEY"): "None" when unset, "" or a token
    pc,            \* "start", "read" (waiting for input), "calling" (requests.post in flight), "done", "stopped" (st.stop)
    conversation,  \* main(): the local list `conversation` of the terminal programs
    messages,      \* st.session_state.messages of the Streamlit session
    request,       \* data["messages"] of the completion call in flight, <<>> when none
    flow,          \* which caller issued the call in flight: "chat", "esg", "score", "none"
    lastRaw,       \* the raw text of the input handled last (a token for an upload or a form)
    before,        \* the transcript as it was when the input handled last arrived
    result,        \* what the last finished ask_groq call did, NoResult before any
    extract,       \* the document and the text of the extract_text_from_pdf call of the input being handled
    log,           \* every turn appended to the chat history, in order of the appends
    clearedAt,     \* Len(log) at the last "Clear Chat History" (0 before any)
    turnCalls,     \* completion calls issued for the input handled last
    everCalled,    \* some completion call was issued
    everInput,     \* some user input (chat text, command, upload, form) was handled
    output         \* what the last step reported to the user

vars == <<app, GROQ_API_KEY, pc, conversation, messages, request, flow, lastRaw,
          before, result, extract, log, clearedAt, turnCalls, everCalled,
          everInput, output>>

----------------------------------------------------------------------------
(* Bounds of the model *)

MaxLog == 3        \* a user turn is accepted while fewer turns than this were appended
MaxPages == 2      \* pages of an analysed document

----------------------------------------------------------------------------
(* Text *)

Whitespace == {" "}

LowerChar(c) ==
    CASE c = "E" -> "e" [] c = "X" -> "x" [] c = "I" -> "i" [] c = "T" -> "t"
      [] c = "Q" -> "q" [] c = "U" -> "u" [] c = "S" -> "s" [] c = "G" -> "g"
      [] OTHER -> c

lower(s) == [i \in 1..Len(s) |-> LowerChar(s[i])]

RECURSIVE lstrip(_)
lstrip(s) == IF s # <<>> /\ Head(s) \in Whitespace THEN lstrip(Tail(s)) ELSE s

RECURSIVE rstrip(_)
rstrip(s) ==
    IF s # <<>> /\ s[Len(s)] \in Whitespace THEN rstrip(SubSeq(s, 1, Len(s) - 1)) ELSE s

strip(s) == rstrip(lstrip(s))

startswith(s, p) == Len(s) >= Len(p) /\ SubSeq(s, 1, Len(p)) = p

\* text[:n]
Prefix(s, n) == SubSeq(s, 1, IF Len(s) < n THEN Len(s) ELSE n)

\* user_input.split(" ", 1)[1] for an input that holds a space
AfterFirstSpace(s) ==
    LET i == CHOOSE k \in 1..Len(s) : s[k] = " " /\ \A j \in 1..(k - 1) : s[j] # " "
    IN  SubSeq(s, i + 1, Len(s))

QuitWords == { <<"e","x","i","t">>, <<"q","u","i","t">>, <<"q">> }
EsgPrefix == <<"e","s","g"," ">>

\* what the user may type
Inputs ==
    { <<>>, <<" ">>, <<" ","Q">>, <<"E","x","i","t">>, <<"Q","U","I","T">>,
      <<"h","i">>, <<"E","s","g"," ","f">> }

\* what the chat box of the web page may hand over: the page branches on nothing
\* but the emptiness of the text
WebInputs == { <<>>, <<" ">>, <<"h","i">> }

Replies == { <<>>, <<"o","k">> }

----------------------------------------------------------------------------
(* Turns and prompts *)

SYSTEM_PROMPT == <<"SYSTEM_PROMPT">>
EsgCap == 3500

Turn(role, content) == [role |-> role, content |-> content]
Persona == Turn("system", SYSTEM_PROMPT)

EsgPrompt(text) == <<"ESG_HEADER">> \o Prefix(text, EsgCap) \o <<"ESG_FOOTER">>

\* the list without the persona turn
EsgMessages_NoPersona(text) == << Turn("user", EsgPrompt(text)) >>

\* summarize_and_benchmark_esg: the one-off message list
EsgMessages(text) == << Persona, Turn("user", EsgPrompt(text)) >>

YesNo(b) == IF b THEN "Yes" ELSE "No"

\* ai_sustainability_assessment: the one-off message list
ScoreMessages(material, weight, recyclable, renewable) ==
    << Persona,
       Turn("user", <<"SCORE_HEADER", material, weight, YesNo(recyclable),
                      YesNo(renewable), "SCORE_FOOTER">>) >>

\* list.insert(0, turn)
AppendTurn_Prepend(list, turn) == <<turn>> \o list

\* list.append(turn)
AppendTurn(list, turn) == Append(list, turn)

\* streamlit_app.py: conversation = [system]; conversation.extend(messages)
BuildConversation(msgs) == <<Persona>> \o msgs

----------------------------------------------------------------------------
(* The completion client *)

RequestExceptionKinds == {"ConnectionError", "Timeout", "HTTPError"}
KeyErrorKinds == {"NoChoicesKey", "NoMessageKey", "NoContentKey"}
FailureKinds == RequestExceptionKinds \cup KeyErrorKinds \cup {"EmptyChoices"}

\* what requests.post and the body of the response can turn out to be
Responses ==
    { [kind |-> k, content |-> <<>>] : k \in FailureKinds }
        \cup { [kind |-> "Ok", content |-> r] : r \in Replies }

NoResult ==
    [kind |-> "none", escaped |-> FALSE, exc |-> "", returned |-> FALSE,
     value |-> <<>>, report |-> ""]

Raise(resp, exc, report) ==
    [kind |-> resp.kind, escaped |-> TRUE, exc |-> exc, returned |-> FALSE,
     value |-> <<>>, report |-> report]

ReturnNone(resp, report) ==
    [kind |-> resp.kind, escaped |-> FALSE, exc |-> "", returned |-> FALSE,
     value |-> <<>>, report |-> report]

Return(resp) ==
    [kind |-> resp.kind, escaped |-> FALSE, exc |-> "", returned |-> TRUE,
     value |-> resp.content, report |-> ""]

\* ask_groq of main.py and of "import requests.py": failures are re-raised
ask_groq_cli(resp) ==
    CASE resp.kind \in RequestExceptionKinds -> Raise(resp, "Exception", "API request failed")
      [] resp.kind \in KeyErrorKinds -> Raise(resp, "Exception", "Unexpected API response format")
      [] resp.kind = "EmptyChoices" -> Raise(resp, "IndexError", "")
      [] OTHER -> Return(resp)

\* ask_groq of streamlit_app.py: failures are shown with st.error, None is returned
ask_groq_web(resp) ==
    CASE resp.kind = "HTTPError" -> ReturnNone(resp, "API Error")
      [] resp.kind \in RequestExceptionKinds -> ReturnNone(resp, "Request failed")
      [] resp.kind \in KeyErrorKinds -> ReturnNone(resp, "Unexpected API response format")
      [] resp.kind = "EmptyChoices" -> Raise(resp, "IndexError", "")
      [] OTHER -> Return(resp)

ask_groq(a, resp) == IF a = "streamlit" THEN ask_groq_web(resp) ELSE ask_groq_cli(resp)

----------------------------------------------------------------------------
(* PDF text extraction *)

PageTexts == { <<" ">>, <<"a">> }

\* a page either fails in extract_text() or yields a text
Pages ==
    { [fails |-> TRUE, text |-> <<>>] } \cup { [fails |-> FALSE, text |-> t] : t \in PageTexts }

PageSeqs == UNION { [1..n -> Pages] : n \in 0..MaxPages }

\* a document: PdfReader may fail on the whole source
Docs ==
    { [readable |-> FALSE, pages |-> <<>>] }
        \cup { [readable |-> TRUE, pages |-> ps] : ps \in PageSeqs }

\* the loop `for page in reader.pages: text += page.extract_text() or ""`,
\* left by the first exception, which the enclosing try catches
RECURSIVE ReadPages(_, _)
ReadPages(pages, text) ==
    IF pages = <<>> THEN text
    ELSE IF Head(pages).fails THEN text
    ELSE ReadPages(Tail(pages), text \o Head(pages).text)

extract_text_from_pdf(doc) == IF doc.readable THEN ReadPages(doc.pages, <<>>) ELSE <<>>

NoExtract == [ran |-> FALSE, doc |-> [readable |-> FALSE, pages |-> <<>>], text |-> <<>>]
Extracted(doc) == [ran |-> TRUE, doc |-> doc, text |-> extract_text_from_pdf(doc)]

----------------------------------------------------------------------------
(* State *)

Apps == {"main", "import_requests", "streamlit"}
Cli == {"main", "import_requests"}
Keys == {"None", "", "gsk"}

Materials == {"Glass", "Other"}
Weights == {"0.0", "150.0"}

\* streamlit_app.py: `not GROQ_API_KEY` is false
KeyIsSet(key) == key \notin {"None", ""}

\* the check that lets every key through
validate_api_key_Always(key) == TRUE

validate_api_key(key) == key \notin {"None", ""}

\* the chat history as it is submitted: the persona turn and the turns kept
Transcript == IF app = "streamlit" THEN <<Persona>> \o messages ELSE conversation

Init ==
    /\ app \in Apps
    /\ GROQ_API_KEY \in Keys
    /\ pc = "start"
    /\ conversation = <<>>
    /\ messages = <<>>
    /\ request = <<>>
    /\ flow = "none"
    /\ lastRaw = <<>>
    /\ before = <<>>
    /\ result = NoResult
    /\ extract = NoExtract
    /\ log = <<>>
    /\ clearedAt = 0
    /\ turnCalls = 0
    /\ everCalled = FALSE
    /\ everInput = FALSE
    /\ output = "none"

----------------------------------------------------------------------------
(* The terminal programs: main() of main.py and of "import requests.py" *)

\* the comparison without .lower()
IsQuit_CaseSensitive(user_input) == user_input \in QuitWords

\* user_input.lower() in ["exit", "quit", "q"]
IsQuit(user_input) == lower(user_input) \in QuitWords

\* only main.py knows the esg command
IsEsg(a, user_input) == a = "main" /\ startswith(lower(user_input), EsgPrefix)

\* the reply is printed and not kept
OnAnswer_Dropped(list, answer) == list

\* the reply is kept as an assistant turn
OnAnswer(list, answer) == AppendTurn(list, Turn("assistant", answer))

\* the key check and the creation of `conversation`
CliStart ==
    /\ pc = "start"
    /\ app \in Cli
    /\ IF validate_api_key(GROQ_API_KEY)
       THEN /\ pc' = "read"
            /\ conversation' = <<Persona>>
            /\ output' = "banner"
       ELSE /\ pc' = "done"
            /\ output' = "Error: GROQ_API_KEY not found"
            /\ UNCHANGED conversation
    /\ UNCHANGED <<app, GROQ_API_KEY, messages, request, flow, lastRaw, before,
                   result, extract, log, clearedAt, turnCalls, everCalled, everInput>>

\* what every handled input line records
NoteInput(raw) ==
    /\ lastRaw' = raw
    /\ before' = Transcript
    /\ result' = NoResult
    /\ everInput' = TRUE

CliQuit(raw) ==
    LET user_input == strip(raw) IN
    /\ pc = "read"
    /\ app \in Cli
    /\ IsQuit(user_input)
    /\ NoteInput(raw)
    /\ pc' = "done"
    /\ output' = "Thank you"
    /\ turnCalls' = 0
    /\ extract' = NoExtract
    /\ UNCHANGED <<app, GROQ_API_KEY, conversation, messages, request, flow, log,
                   clearedAt, everCalled>>

\* esg <path>: os.path.exists, extract_text_from_pdf, summarize_and_benchmark_esg
CliEsg(raw, exists, doc) ==
    LET user_input == strip(raw)
        file_path == AfterFirstSpace(user_input)
        text == extract_text_from_pdf(doc)
    IN
    /\ pc = "read"
    /\ app \in Cli
    /\ ~IsQuit(user_input)
    /\ IsEsg(app, user_input)
    /\ NoteInput(raw)
    /\ IF ~exists
       THEN /\ output' = "File not found"
            /\ extract' = NoExtract
            /\ turnCalls' = 0
            /\ UNCHANGED <<pc, request, flow, everCalled>>
       ELSE IF strip(text) = <<>>
       THEN /\ output' = "No text could be extracted"
            /\ extract' = Extracted(doc)
            /\ turnCalls' = 0
            /\ UNCHANGED <<pc, request, flow, everCalled>>
       ELSE /\ output' = "Summarizing"
            /\ extract' = Extracted(doc)
            /\ request' = EsgMessages(text)
            /\ flow' = "esg"
            /\ pc' = "calling"
            /\ turnCalls' = 1
            /\ everCalled' = TRUE
    /\ UNCHANGED <<app, GROQ_API_KEY, conversation, messages, log, clearedAt>>

CliBlank(raw) ==
    LET user_input == strip(raw) IN
    /\ pc = "read"
    /\ app \in Cli
    /\ ~IsQuit(user_input)
    /\ ~IsEsg(app, user_input)
    /\ user_input = <<>>
    /\ NoteInput(raw)
    /\ output' = "Please enter a question"
    /\ turnCalls' = 0
    /\ extract' = NoExtract
    /\ UNCHANGED <<app, GROQ_API_KEY, pc, conversation, messages, request, flow, log,
                   clearedAt, everCalled>>

\* conversation.append(user turn); ask_groq(conversation) starts
CliChat(raw) ==
    LET user_input == strip(raw)
        turn == Turn("user", user_input)
    IN
    /\ pc = "read"
    /\ app \in Cli
    /\ ~IsQuit(user_input)
    /\ ~IsEsg(app, user_input)
    /\ user_input # <<>>
    /\ Len(log) < MaxLog
    /\ NoteInput(raw)
    /\ conversation' = AppendTurn(conversation, turn)
    /\ log' = Append(log, turn)
    /\ request' = conversation'
    /\ flow' = "chat"
    /\ pc' = "calling"
    /\ turnCalls' = 1
    /\ everCalled' = TRUE
    /\ output' = "Bot: "
    /\ extract' = NoExtract
    /\ UNCHANGED <<app, GROQ_API_KEY, messages, clearedAt>>

\* ask_groq ends: the answer is printed and kept, or `except Exception` reports
CliComplete(resp) ==
    LET r == ask_groq(app, resp) IN
    /\ pc = "calling"
    /\ app \in Cli
    /\ result' = r
    /\ IF r.escaped
       THEN /\ output' = "Error"
            /\ UNCHANGED <<conversation, log>>
       ELSE IF flow = "chat"
       THEN /\ output' = "answer"
            /\ conversation' = OnAnswer(conversation, r.value)
            /\ log' = Append(log, Turn("assistant", r.value))
       ELSE /\ output' = "summary"
            /\ UNCHANGED <<conversation, log>>
    /\ pc' = "read"
    /\ request' = <<>>
    /\ flow' = "none"
    /\ extract' = NoExtract
    /\ UNCHANGED <<app, GROQ_API_KEY, messages, lastRaw, before, clearedAt,
                   turnCalls, everCalled, everInput>>

\* KeyboardInterrupt at input() or while ask_groq waits: `break`
CliInterrupt ==
    /\ pc \in {"read", "calling"}
    /\ app \in Cli
    /\ pc' = "done"
    /\ output' = "Goodbye"
    /\ UNCHANGED <<app, GROQ_API_KEY, conversation, messages, request, flow, lastRaw,
                   before, result, extract, log, clearedAt, turnCalls, everCalled,
                   everInput>>

\* input() raises EOFError: `except Exception` reports it and the loop goes on
CliEOF ==
    /\ pc = "read"
    /\ app \in Cli
    /\ output' = "Error"
    /\ UNCHANGED <<app, GROQ_API_KEY, pc, conversation, messages, request, flow, lastRaw,
                   before, result, extract, log, clearedAt, turnCalls, everCalled,
                   everInput>>

----------------------------------------------------------------------------
(* The Streamlit application: main() of streamlit_app.py, one script run per event *)

\* `if response:` -- a reply that is neither None nor empty
Truthy(r) == r.returned /\ r.value # <<>>

\* first script run: the key check, then st.session_state.messages = []
WebStart ==
    /\ pc = "start"
    /\ app = "streamlit"
    /\ IF KeyIsSet(GROQ_API_KEY)
       THEN /\ pc' = "read"
            /\ output' = "page"
       ELSE /\ pc' = "stopped"
            /\ output' = "GROQ_API_KEY not found"
    /\ messages' = <<>>
    /\ UNCHANGED <<app, GROQ_API_KEY, conversation, request, flow, lastRaw, before,
                   result, extract, log, clearedAt, turnCalls, everCalled, everInput>>

\* the sidebar button, drawn before the key check
WebClear ==
    /\ pc \in {"read", "stopped"}
    /\ app = "streamlit"
    /\ messages' = <<>>
    /\ clearedAt' = Len(log)
    /\ output' = IF pc = "stopped" THEN "GROQ_API_KEY not found" ELSE "page"
    /\ UNCHANGED <<app, GROQ_API_KEY, pc, conversation, request, flow, lastRaw, before,
                   result, extract, log, turnCalls, everCalled, everInput>>

\* `if prompt := st.chat_input(...)`: the turn is kept, the list is built, ask_groq starts
WebChat(raw) ==
    LET turn == Turn("user", raw) IN
    /\ pc = "read"
    /\ app = "streamlit"
    /\ NoteInput(raw)
    /\ extract' = NoExtract
    /\ IF raw = <<>>
       THEN /\ output' = "page"
            /\ turnCalls' = 0
            /\ UNCHANGED <<pc, messages, request, flow, log, everCalled>>
       ELSE /\ Len(log) < MaxLog
            /\ messages' = AppendTurn(messages, turn)
            /\ log' = Append(log, turn)
            /\ request' = BuildConversation(messages')
            /\ flow' = "chat"
            /\ pc' = "calling"
            /\ turnCalls' = 1
            /\ everCalled' = TRUE
            /\ output' = "Thinking"
    /\ UNCHANGED <<app, GROQ_API_KEY, conversation, clearedAt>>

\* "Analyze ESG Report" on an uploaded file
WebAnalyze(doc) ==
    LET text == extract_text_from_pdf(doc) IN
    /\ pc = "read"
    /\ app = "streamlit"
    /\ NoteInput(<<"UPLOAD">>)
    /\ extract' = Extracted(doc)
    /\ IF strip(text) # <<>>
       THEN /\ request' = EsgMessages(text)
            /\ flow' = "esg"
            /\ pc' = "calling"
            /\ turnCalls' = 1
            /\ everCalled' = TRUE
            /\ output' = "Analyzing"
       ELSE /\ output' = "No text could be extracted"
            /\ turnCalls' = 0
            /\ UNCHANGED <<pc, request, flow, everCalled>>
    /\ UNCHANGED <<app, GROQ_API_KEY, conversation, messages, log, clearedAt>>

\* "Analyze with AI" on the four packaging parameters
WebScore(material, weight, recyclable, renewable) ==
    /\ pc = "read"
    /\ app = "streamlit"
    /\ NoteInput(<<"FORM">>)
    /\ extract' = NoExtract
    /\ request' = ScoreMessages(material, weight, recyclable, renewable)
    /\ flow' = "score"
    /\ pc' = "calling"
    /\ turnCalls' = 1
    /\ everCalled' = TRUE
    /\ output' = "Analyzing"
    /\ UNCHANGED <<app, GROQ_API_KEY, conversation, messages, log, clearedAt>>

\* ask_groq ends: a truthy reply is shown (and kept, in the chat), else an error is shown
WebComplete(resp) ==
    LET r == ask_groq(app, resp) IN
    /\ pc = "calling"
    /\ app = "streamlit"
    /\ result' = r
    /\ IF r.escaped
       THEN /\ output' = "traceback"
            /\ UNCHANGED <<messages, log>>
       ELSE IF ~Truthy(r)
       THEN /\ output' = "Failed"
            /\ UNCHANGED <<messages, log>>
       ELSE IF flow = "chat"
       THEN /\ output' = "answer"
            /\ messages' = OnAnswer(messages, r.value)
            /\ log' = Append(log, Turn("assistant", r.value))
       ELSE /\ output' = "analysis"
            /\ UNCHANGED <<messages, log>>
    /\ pc' = "read"
    /\ request' = <<>>
    /\ flow' = "none"
    /\ extract' = NoExtract
    /\ UNCHANGED <<app, GROQ_API_KEY, conversation, lastRaw, before, clearedAt,
                   turnCalls, everCalled, everInput>>

----------------------------------------------------------------------------

Next ==
    \/ CliStart
    \/ \E raw \in Inputs : CliQuit(raw)
    \/ \E raw \in Inputs, exists \in BOOLEAN, doc \in Docs : CliEsg(raw, exists, doc)
    \/ \E raw \in Inputs : CliBlank(raw)
    \/ \E raw \in Inputs : CliChat(raw)
    \/ \E resp \in Responses : CliComplete(resp)
    \/ CliInterrupt
    \/ CliEOF
    \/ WebStart
    \/ WebClear
    \/ \E raw \in WebInputs : WebChat(raw)
    \/ \E doc \in Docs : WebAnalyze(doc)
    \/ \E m \in Materials, w \in Weights, rc \in BOOLEAN, rn \in BOOLEAN : WebScore(m, w, rc, rn)
    \/ \E resp \in Responses : WebComplete(resp)

Spec == Init /\ [][Next]_vars

----------------------------------------------------------------------------
(* Properties *)

KeyMissing == GROQ_API_KEY \in {"None", ""}

\* the turns appended since the history was last emptied
KeptTurns == SubSeq(log, clearedAt + 1, Len(log))

\* the last input was a quit word, in any letter case, blanks around it ignored
TypedQuit == everInput /\ lower(strip(lastRaw)) \in QuitWords

\* the last input was the esg command of main.py
TypedEsg ==
    /\ app = "main"
    /\ everInput
    /\ ~TypedQuit
    /\ startswith(lower(strip(lastRaw)), <<"e","s","g"," ">>)

\* the completion call that ended last failed
CallFailed == result.kind \in FailureKinds

\* C1: in every state of a chat session, the list submitted to the completion
\* call (and the transcript it is built from) starts with the persona turn,
\* holds no other system turn, and goes on with exactly the turns appended to
\* the history (since it was last emptied by Clear Chat History), in order.
C1_PersonaFirstTurnsInOrder ==
    /\ pc \in {"read", "calling"} =>
          /\ Transcript # <<>>
          /\ Transcript[1] = Persona
          /\ Tail(Transcript) = KeptTurns
    /\ (pc = "calling" /\ flow = "chat") =>
          /\ request # <<>>
          /\ request[1] = Persona
          /\ \A i \in 2..Len(request) : request[i].role \in {"user", "assistant"}
          /\ Tail(request) = KeptTurns

C1_Witness ==
    /\ app = "streamlit"
    /\ pc = "calling"
    /\ flow = "chat"
    /\ clearedAt > 0
    /\ Len(request) >= 3

\* C2: when a completion call of the chat fails, the transcript is what it was
\* before the user's input of that turn was accepted.
C2_FailedTurnNotCommitted ==
    (pc = "read" /\ CallFailed /\ output \in {"Error", "Failed", "traceback"})
        => Transcript = before

\* C3: an input that is empty or all whitespace appends no turn and issues no
\* completion call, in the terminal loop and in the web chat.
C3_BlankInputRejected ==
    (everInput /\ strip(lastRaw) = <<>>)
        => /\ turnCalls = 0
           /\ Len(Transcript) = Len(before)
           /\ pc # "calling"

\* the error kind a result of ask_groq stands for
ErrorClass(r) ==
    CASE r.escaped -> "escaped"
      [] r.report = "Request failed" -> "TransportError"
      [] r.report = "API Error" -> "ServiceError"
      [] r.report = "Unexpected API response format" -> "ProtocolError"
      [] OTHER -> "none"

\* C5: ask_groq lets no error escape and classifies every outcome: transport
\* failure or timeout as TransportError, a non-success status as ServiceError,
\* a success response without the reply field as ProtocolError; only a
\* well-formed success yields the reply text.
C5_ClientClassifiesEveryOutcome ==
    result.kind # "none" =>
        /\ ~result.escaped
        /\ result.kind \in {"ConnectionError", "Timeout"} => ErrorClass(result) = "TransportError"
        /\ result.kind = "HTTPError" => ErrorClass(result) = "ServiceError"
        /\ result.kind \in {"NoChoicesKey", "EmptyChoices", "NoMessageKey", "NoContentKey"}
              => ErrorClass(result) = "ProtocolError"
        /\ result.returned <=> result.kind = "Ok"

\* C6: after an interrupt while a chat completion call is in flight, the
\* transcript is what it was before that input was accepted.
C6_InterruptLeavesTranscript ==
    (app \in Cli /\ pc = "done" /\ flow = "chat") => conversation = before

\* C7: the esg command leaves the chat transcript as it was, whatever its
\* outcome, and the call it issues carries exactly the pair
\* [persona turn, rendered analysis prompt].
C7_EsgLeavesTranscript ==
    /\ TypedEsg => conversation = before
    /\ (pc = "calling" /\ flow = "esg") =>
          /\ extract.ran
          /\ request = << [role |-> "system", content |-> SYSTEM_PROMPT],
                          [role |-> "user",
                           content |-> <<"ESG_HEADER">> \o Prefix(extract.text, EsgCap)
                                          \o <<"ESG_FOOTER">>] >>

C7_Witness ==
    /\ TypedEsg
    /\ pc = "calling"
    /\ flow = "esg"
    /\ Len(conversation) >= 3

\* the texts of the pages that do not fail, concatenated in page order
RECURSIVE TextOfGoodPages(_)
TextOfGoodPages(pages) ==
    IF pages = <<>> THEN <<>>
    ELSE (IF Head(pages).fails THEN <<>> ELSE Head(pages).text)
            \o TextOfGoodPages(Tail(pages))

\* C8: the extracted text is the in-order concatenation of the texts of all
\* pages that did not fail, pages after a failing page included.
C8_PageGranularDegradation ==
    (extract.ran /\ extract.doc.readable)
        => extract.text = TextOfGoodPages(extract.doc.pages)

\* C9: with the credential absent or empty, no completion call is ever issued
\* and no user input is ever handled.
C9_NoKeyNoCall ==
    KeyMissing =>
        /\ ~everCalled
        /\ ~everInput
        /\ request = <<>>
        /\ pc \in {"start", "done", "stopped"}

C9_Witness == KeyMissing /\ pc \in {"done", "stopped"}

\* C10: the terminal session ends exactly on exit, quit or q (any letter case,
\* trimmed; no call, transcript unchanged) or on an interrupt; a reported error
\* leaves the loop waiting for the next input.
C10_QuitOrInterruptOnly ==
    app \in Cli =>
        /\ TypedQuit =>
              /\ pc = "done"
              /\ output = "Thank you"
              /\ turnCalls = 0
              /\ conversation = before
        /\ (pc = "done" /\ conversation # <<>>) =>
              \/ TypedQuit /\ output = "Thank you"
              \/ output = "Goodbye"
        /\ output \in {"Error", "File not found", "No text could be extracted",
                       "Please enter a question"} => pc = "read"

C10_Witness ==
    /\ app \in Cli
    /\ pc = "done"
    /\ lastRaw = <<" ", "Q">>
    /\ output = "Thank you"
    /\ Len(conversation) = 2

C4_Step ==
    app \in Cli =>
        /\ (pc' = "calling" /\ flow' = "chat") =>
              /\ pc = "read"
              /\ turnCalls' = 1
              /\ conversation' = Append(conversation, [role |-> "user", content |-> strip(lastRaw')])
              /\ request' = conversation'
        /\ pc = "calling" => pc' \in {"read", "done"}
        /\ (pc = "calling" /\ flow = "chat") => request = conversation
        /\ (pc = "calling" /\ flow = "chat" /\ pc' = "read") =>
              IF result'.kind = "Ok"
              THEN conversation' = Append(request, [role |-> "assistant", content |-> result'.value])
              ELSE conversation' = request

====
